---- MODULE Spec2Model ----
(***************************************************************************)
(* Model of main.py: import_to_notion, the reconciliation loop that mirrors *)
(* a list of Steam games into three Notion data sources (steam = primary,   *)
(* rate = secondary stubs, main = combined linking records), together with  *)
(* create_appid_map_for_pages, the identity resolver.                       *)
(*                                                                          *)
(* One step of the model is one statement group of import_to_notion that    *)
(* ends in at most one call of the Notion or Steam client.  A call of the   *)
(* Notion client either returns, raises requests ConnectionError ("conn")   *)
(* or raises any other exception ("exc"); a raising call leaves the data    *)
(* source unchanged.                                                        *)
(***************************************************************************)
EXTENDS Integers, Sequences, FiniteSets, TLC

(* ---------------------------------------------------------------- bounds *)
AppIds == {1, 2}      \* the appids the Steam library can hold
MaxGames == 2         \* longest list handed to import_to_notion
MaxInit == 1          \* records the three data sources hold before the first run
MaxPages == 4         \* longest page array handed to create_appid_map_for_pages alone
MaxAch == 3           \* longest achievement list the Steam API answers with

(* ------------------------------------------------------------- constants *)
NOTION_RETRY_TIMES == 5
NOTION_DELAY == 3
STEAM_RETRY_TIMES == 5
REQUEST_DELAY == 2
NoPage == 0           \* "key not in the dict"; page ids start at 1

VARIABLES
    games,                    \* the argument of import_to_notion: a list of appids
    has_cover,                \* Steam store: the appids whose detail has a header_image
    steam_db, rate_db, main_db,   \* the pages of the three Notion data sources, in scan order
    run,                      \* "first" or "second" call of import_to_notion on games
    pc,                       \* position in import_to_notion
    idx,                      \* enumerate(games, 1)
    origin_data, origin_rate_data, origin_main_data,
    appid_map_steam_page_id, appid_map_rate_page_id, appid_map_main_page_id,
    success_count, fail_count, skipped_count,
    cover_url,                \* details.get("cover_url") is non-empty
    attempt,                  \* loop variable of the primary retry loop
    status,                   \* status text of the current item
    call,                     \* the last request the Notion client sent for the current item
                              \* and how it ended
    summary,                  \* the counts of the last summary line printed
    status_lines,             \* status lines printed for the current item
    delay,                    \* seconds of time.sleep in the step just taken (0: none)
    fetch_fn,                 \* the Steam fetcher running: "details" or "achievements"
    steam_reply,              \* what the Steam API answers when a request gets through
    requests,                 \* calls of requests.get the fetcher has made
    http_ok,                  \* a call of requests.get has returned
    fetch_result,             \* what the fetcher returned
    achievement_rate          \* calculate_achievement_rate(achievements)

vars == <<games, has_cover, steam_db, rate_db, main_db, run, pc, idx,
          origin_data, origin_rate_data, origin_main_data,
          appid_map_steam_page_id, appid_map_rate_page_id, appid_map_main_page_id,
          success_count, fail_count, skipped_count, cover_url, attempt, status,
          call, summary, status_lines, delay, fetch_fn, steam_reply, requests,
          http_ok, fetch_result, achievement_rate>>

(* ------------------------------------------------------------ data shapes *)
\* f"{appid}" / str(appid): the decimal text of the appid
str(appid) == ToString(appid)

\* the identity texts a page can carry; "" is an absent or empty appid field
AppKeys == {str(a) : a \in AppIds}
KeyTexts == AppKeys \cup {""}

SeqsUpTo(S, n) == UNION {[1..k -> S] : k \in 0..n}

\* a page of a data source as the scan returns it: its id and the plain text of
\* its appid property; the id of a page is its position in its data source
Page(i, key) == [id |-> i, appid |-> key]
PagesOf(keys) == [i \in 1..Len(keys) |-> Page(i, keys[i])]

\* a linking page whose two relation properties are exchanged
MainPage_Swapped(i, key, rate_id, steam_id) ==
    [id |-> i, appid |-> key, rate_rel |-> steam_id, steam_rel |-> rate_id]

\* a linking page also carries its two relation properties
MainPage(i, key, rate_id, steam_id) ==
    [id |-> i, appid |-> key, rate_rel |-> rate_id, steam_rel |-> steam_id]
MainPagesOf(keys) == [i \in 1..Len(keys) |-> MainPage(i, keys[i], NoPage, NoPage)]

EmptyMap == [k \in AppKeys |-> NoPage]
InMap(key, appid_map) == appid_map[key] # NoPage

NoCall == [op |-> "none", res |-> "none", page |-> NoPage]
NoSummary == [success |-> 0, fail |-> 0, skipped |-> 0, total |-> 0, printed |-> FALSE]

\* the variables of the Steam fetchers and of calculate_achievement_rate
fetcher == <<fetch_fn, steam_reply, requests, http_ok, fetch_result, achievement_rate>>

NoReply == [header_image |-> FALSE, achievements |-> <<>>]
NoResult == [returned |-> FALSE, empty |-> TRUE, cover_url |-> FALSE, achievements |-> <<>>]
NoRate == [total |-> 0, unlocked |-> 0, rate |-> [num |-> 0, den |-> 1], computed |-> FALSE]

\* no fetcher is being followed on its own
FetcherIdle ==
    /\ fetch_fn = "none"
    /\ steam_reply = NoReply
    /\ requests = 0
    /\ http_ok = FALSE
    /\ fetch_result = NoResult
    /\ achievement_rate = NoRate

(* --------------------------------------------- create_appid_map_for_pages *)
\* a resolver that reads no identity text: every page is passed over
MapAssign_IgnoresAppid(appid_map, page) == appid_map

\* the body of "for page in pages_array": a page with a non-empty appid text
\* is assigned into the dict under that text
MapAssign(appid_map, page) ==
    IF page.appid # "" THEN [appid_map EXCEPT ![page.appid] = page.id] ELSE appid_map

RECURSIVE MapLoop(_, _, _)
MapLoop(pages_array, i, appid_map) ==
    IF i > Len(pages_array) THEN appid_map
    ELSE MapLoop(pages_array, i + 1, MapAssign(appid_map, pages_array[i]))

create_appid_map_for_pages(pages_array) == MapLoop(pages_array, 1, EmptyMap)

(* ------------------------------------------------------------------ Init *)
\* The state at the entry of the first call import_to_notion(selected_games):
\* a non-empty list of games (the main program leaves when nothing is selected),
\* the Steam store's details of these games, and three data sources holding
\* MaxInit pages or fewer in all.
Init ==
    /\ games \in SeqsUpTo(AppIds, MaxGames) \ {<<>>}
    /\ has_cover \in SUBSET {games[i] : i \in 1..Len(games)}
    /\ \E sk \in SeqsUpTo(KeyTexts, MaxInit), rk \in SeqsUpTo(KeyTexts, MaxInit),
          mk \in SeqsUpTo(KeyTexts, MaxInit) :
          /\ Len(sk) + Len(rk) + Len(mk) <= MaxInit
          /\ steam_db = PagesOf(sk)
          /\ rate_db = PagesOf(rk)
          /\ main_db = MainPagesOf(mk)
    /\ run = "first"
    /\ pc = "query_steam"
    /\ idx = 0
    /\ origin_data = <<>>
    /\ origin_rate_data = <<>>
    /\ origin_main_data = <<>>
    /\ appid_map_steam_page_id = EmptyMap
    /\ appid_map_rate_page_id = EmptyMap
    /\ appid_map_main_page_id = EmptyMap
    /\ success_count = 0
    /\ fail_count = 0
    /\ skipped_count = 0
    /\ cover_url = FALSE
    /\ attempt = 0
    /\ status = "unset"
    /\ call = NoCall
    /\ summary = NoSummary
    /\ status_lines = 0
    /\ delay = 0
    /\ FetcherIdle

store == <<games, has_cover>>
dbs == <<steam_db, rate_db, main_db>>
origins == <<origin_data, origin_rate_data, origin_main_data>>
maps == <<appid_map_steam_page_id, appid_map_rate_page_id, appid_map_main_page_id>>
counts == <<success_count, fail_count, skipped_count>>

appid == games[idx]
key == str(appid)

(* ------------------------------------------ loading the three identity maps *)
\* query_datasource_all_data follows has_more/next_cursor to the end: it
\* returns every page of the data source in scan order, or the client raises.
query_datasource_all_data(db) == db

QuerySteam ==
    /\ pc = "query_steam"
    /\ origin_data' = query_datasource_all_data(steam_db)
    /\ appid_map_steam_page_id' = create_appid_map_for_pages(origin_data')
    /\ pc' = "query_rate"
    /\ delay' = 0
    /\ UNCHANGED <<store, fetcher, status_lines, dbs, run, idx, origin_rate_data, origin_main_data,
                   appid_map_rate_page_id, appid_map_main_page_id, counts,
                   cover_url, attempt, status, call, summary>>

QueryRate ==
    /\ pc = "query_rate"
    /\ origin_rate_data' = query_datasource_all_data(rate_db)
    /\ appid_map_rate_page_id' = create_appid_map_for_pages(origin_rate_data')
    /\ pc' = "query_main"
    /\ delay' = 0
    /\ UNCHANGED <<store, fetcher, status_lines, dbs, run, idx, origin_data, origin_main_data,
                   appid_map_steam_page_id, appid_map_main_page_id, counts,
                   cover_url, attempt, status, call, summary>>

QueryMain ==
    /\ pc = "query_main"
    /\ origin_main_data' = query_datasource_all_data(main_db)
    /\ appid_map_main_page_id' = create_appid_map_for_pages(origin_main_data')
    /\ pc' = "for"
    /\ delay' = 0
    /\ UNCHANGED <<store, fetcher, status_lines, dbs, run, idx, origin_data, origin_rate_data,
                   appid_map_steam_page_id, appid_map_rate_page_id, counts,
                   cover_url, attempt, status, call, summary>>

\* a scan failure that is swallowed: the run goes on with the maps it has
QueryRaises_Swallowed ==
    /\ pc \in {"query_steam", "query_rate", "query_main"}
    /\ pc' = "for"
    /\ delay' = 0
    /\ UNCHANGED <<store, fetcher, status_lines, dbs, run, idx, origins, maps, counts,
                   cover_url, attempt, status, call, summary>>

\* notion.data_sources.query raises: nothing in import_to_notion catches it
QueryRaises ==
    /\ pc \in {"query_steam", "query_rate", "query_main"}
    /\ pc' = "raised"
    /\ delay' = 0
    /\ UNCHANGED <<store, fetcher, status_lines, dbs, run, idx, origins, maps, counts,
                   cover_url, attempt, status, call, summary>>

(* ------------------------------------------------------------ the item loop *)
\* for idx, game in enumerate(games, 1): the next item, or the loop's end.
\* The per-item locals are cleared here; the code leaves the previous item's
\* values in them and never reads them before assigning them again.
ForLoop ==
    /\ pc = "for"
    /\ IF idx < Len(games)
       THEN /\ idx' = idx + 1
            /\ pc' = "details"
       ELSE /\ idx' = idx
            /\ pc' = "summary"
    /\ cover_url' = FALSE
    /\ attempt' = 0
    /\ status' = "unset"
    /\ call' = NoCall
    /\ status_lines' = 0
    /\ delay' = 0
    /\ UNCHANGED <<store, fetcher, dbs, run, origins, maps, counts, summary>>

\* an except clause that sets the status and forgets the counter
ItemExcept_Uncounted(e) ==
    /\ status' = "skip(" \o e \o ")"
    /\ skipped_count' = skipped_count
    /\ pc' = "status"

\* no except clause at the item: the exception leaves import_to_notion
ItemExcept_Escapes(e) ==
    /\ status' = status
    /\ skipped_count' = skipped_count
    /\ pc' = "raised"

\* the "except Exception as e" of the item: status = skipped(e), skipped_count += 1,
\* then the status line
ItemExcept(e) ==
    /\ status' = "skip(" \o e \o ")"
    /\ skipped_count' = skipped_count + 1
    /\ pc' = "status"

\* get_game_details_with_cover returns the store's detail
DetailsReturned ==
    /\ pc = "details"
    /\ cover_url' = (appid \in has_cover)
    /\ pc' = "rate"
    /\ delay' = 0
    /\ UNCHANGED <<store, fetcher, status_lines, dbs, run, idx, origins, maps, counts, attempt, status,
                   call, summary>>

\* every attempt of get_game_details_with_cover raised: it returns {}
DetailsExhausted ==
    /\ pc = "details"
    /\ cover_url' = FALSE
    /\ pc' = "rate"
    /\ delay' = 0
    /\ UNCHANGED <<store, fetcher, status_lines, dbs, run, idx, origins, maps, counts, attempt, status,
                   call, summary>>

(* ------------------------------------------------- the secondary stub page *)
\* a stub step that creates a stub although the key is in the map
RatePresent_Recreates ==
    /\ pc = "rate"
    /\ InMap(key, appid_map_rate_page_id)
    /\ LET rate_page_id == Len(rate_db) + 1 IN
         /\ rate_db' = Append(rate_db, Page(rate_page_id, key))
         /\ appid_map_rate_page_id' = [appid_map_rate_page_id EXCEPT ![key] = rate_page_id]
         /\ call' = [op |-> "rate_create", res |-> "ok", page |-> rate_page_id]
    /\ pc' = "cover_check"
    /\ delay' = 0
    /\ UNCHANGED <<store, fetcher, status_lines, steam_db, main_db, run, idx, origins,
                   appid_map_steam_page_id, appid_map_main_page_id, counts,
                   cover_url, attempt, status, summary>>

\* "if str(appid) not in appid_map_rate_page_id" is false: rate_page_id is read
RatePresent ==
    /\ pc = "rate"
    /\ InMap(key, appid_map_rate_page_id)
    /\ pc' = "cover_check"
    /\ delay' = 0
    /\ UNCHANGED <<store, fetcher, status_lines, dbs, run, idx, origins, maps, counts, cover_url, attempt,
                   status, call, summary>>

\* notion.pages.create(parent = rate data source) returns: the new page's id
\* goes into appid_map_rate_page_id
RateCreate ==
    /\ pc = "rate"
    /\ ~InMap(key, appid_map_rate_page_id)
    /\ LET rate_page_id == Len(rate_db) + 1 IN
         /\ rate_db' = Append(rate_db, Page(rate_page_id, key))
         /\ appid_map_rate_page_id' = [appid_map_rate_page_id EXCEPT ![key] = rate_page_id]
         /\ call' = [op |-> "rate_create", res |-> "ok", page |-> rate_page_id]
    /\ pc' = "cover_check"
    /\ delay' = 0
    /\ UNCHANGED <<store, fetcher, status_lines, steam_db, main_db, run, idx, origins,
                   appid_map_steam_page_id, appid_map_main_page_id, counts,
                   cover_url, attempt, status, summary>>

\* the same call raises e: the call is made once, outside any retry loop, and
\* the exception reaches the item's except clause
RateCreateRaises(e) ==
    /\ pc = "rate"
    /\ ~InMap(key, appid_map_rate_page_id)
    /\ call' = [op |-> "rate_create", res |-> e, page |-> NoPage]
    /\ ItemExcept(e)
    /\ delay' = 0
    /\ UNCHANGED <<store, fetcher, status_lines, dbs, run, idx, origins, maps, success_count, fail_count,
                   cover_url, attempt, summary>>

\* display_progress_bar, then "if not details.get('cover_url'): continue"
CoverCheck ==
    /\ pc = "cover_check"
    /\ IF ~cover_url
       THEN /\ pc' = "for"
            /\ attempt' = attempt
       ELSE /\ pc' = "steam"
            /\ attempt' = 1
    /\ delay' = 0
    /\ UNCHANGED <<store, fetcher, status_lines, dbs, run, idx, origins, maps, counts, cover_url, status,
                   call, summary>>

(* ------------------------------------------- the retry loop of the primary *)
\* the request one pass of "for attempt in range(1, NOTION_RETRY_TIMES + 1)" sends
SteamOp == IF InMap(key, appid_map_steam_page_id) THEN "steam_update" ELSE "steam_create"

\* "status = success; success_count += 1; break".  Nothing reads attempt once
\* the loop has ended: the model clears it there.
SteamSucceeded ==
    /\ status' = "success"
    /\ success_count' = success_count + 1
    /\ attempt' = 0
    /\ pc' = "main"

\* notion.pages.update(page_id = appid_map_steam_page_id[str(appid)]) returns:
\* the page keeps its id and its appid text
SteamUpdate ==
    /\ pc = "steam"
    /\ InMap(key, appid_map_steam_page_id)
    /\ call' = [op |-> "steam_update", res |-> "ok",
                page |-> appid_map_steam_page_id[key]]
    /\ SteamSucceeded
    /\ delay' = 0
    /\ UNCHANGED <<store, fetcher, status_lines, dbs, run, idx, origins, maps, fail_count, skipped_count,
                   cover_url, summary>>

\* notion.pages.create(parent = steam data source) returns
SteamCreate ==
    /\ pc = "steam"
    /\ ~InMap(key, appid_map_steam_page_id)
    /\ LET new_steam_page == Len(steam_db) + 1 IN
         /\ steam_db' = Append(steam_db, Page(new_steam_page, key))
         /\ appid_map_steam_page_id' = [appid_map_steam_page_id EXCEPT ![key] = new_steam_page]
         /\ call' = [op |-> "steam_create", res |-> "ok",
                     page |-> new_steam_page]
    /\ SteamSucceeded
    /\ delay' = 0
    /\ UNCHANGED <<store, fetcher, status_lines, rate_db, main_db, run, idx, origins,
                   appid_map_rate_page_id, appid_map_main_page_id, fail_count,
                   skipped_count, cover_url, summary>>

\* "except requests.exceptions.ConnectionError": the last attempt records the
\* failure and the loop ends; an earlier one sleeps and the loop goes on
SteamConnectionError ==
    /\ pc = "steam"
    /\ call' = [op |-> SteamOp, res |-> "conn", page |-> NoPage]
    /\ IF attempt = NOTION_RETRY_TIMES
       THEN /\ status' = "fail(conn)"
            /\ fail_count' = fail_count + 1
            /\ attempt' = 0
            /\ delay' = 0
            /\ pc' = "main"
       ELSE /\ delay' = NOTION_DELAY * attempt
            /\ attempt' = attempt + 1
            /\ UNCHANGED <<status, fail_count, pc>>
    /\ UNCHANGED <<store, fetcher, status_lines, dbs, run, idx, origins, maps, success_count, skipped_count,
                   cover_url, summary>>

\* an except clause that maps the appid to the page the create would have made
SteamException_StoresKey ==
    /\ pc = "steam"
    /\ call' = [op |-> SteamOp, res |-> "exc", page |-> NoPage]
    /\ status' = "fail(exc)"
    /\ fail_count' = fail_count + 1
    /\ attempt' = 0
    /\ pc' = "main"
    /\ delay' = 0
    /\ appid_map_steam_page_id' =
          [appid_map_steam_page_id EXCEPT ![key] = Len(steam_db) + 1]
    /\ UNCHANGED <<store, fetcher, status_lines, dbs, run, idx, origins,
                   appid_map_rate_page_id, appid_map_main_page_id, success_count,
                   skipped_count, cover_url, summary>>

\* "except Exception as e": status = failed(e); fail_count += 1; break
SteamException ==
    /\ pc = "steam"
    /\ call' = [op |-> SteamOp, res |-> "exc", page |-> NoPage]
    /\ status' = "fail(exc)"
    /\ fail_count' = fail_count + 1
    /\ attempt' = 0
    /\ pc' = "main"
    /\ delay' = 0
    /\ UNCHANGED <<store, fetcher, status_lines, dbs, run, idx, origins, maps, success_count, skipped_count,
                   cover_url, summary>>

(* ---------------------------------------------------- the linking record *)
\* "if str(appid) not in appid_map_main_page_id" is false
MainPresent ==
    /\ pc = "main"
    /\ InMap(key, appid_map_main_page_id)
    /\ pc' = "status"
    /\ delay' = 0
    /\ UNCHANGED <<store, fetcher, status_lines, dbs, run, idx, origins, maps, counts, cover_url, attempt,
                   status, call, summary>>

\* building rate_properties reads appid_map_rate_page_id[str(appid)] and
\* appid_map_steam_page_id[str(appid)]: a missing key raises KeyError
MainKeyError ==
    /\ pc = "main"
    /\ ~InMap(key, appid_map_main_page_id)
    /\ ~InMap(key, appid_map_rate_page_id) \/ ~InMap(key, appid_map_steam_page_id)
    /\ ItemExcept("KeyError")
    /\ delay' = 0
    /\ UNCHANGED <<store, fetcher, status_lines, dbs, run, idx, origins, maps, success_count, fail_count,
                   cover_url, attempt, call, summary>>

\* a linking create that does not need the primary page: a missing key reads
\* as no page
MainCreate_NoPrimaryCheck ==
    /\ pc = "main"
    /\ ~InMap(key, appid_map_main_page_id)
    /\ InMap(key, appid_map_rate_page_id)
    /\ LET new_main_page == Len(main_db) + 1 IN
         /\ main_db' = Append(main_db, MainPage(new_main_page, key,
                                  appid_map_rate_page_id[key], appid_map_steam_page_id[key]))
         /\ call' = [op |-> "main_create", res |-> "ok", page |-> new_main_page]
    /\ pc' = "status"
    /\ delay' = 0
    /\ UNCHANGED <<store, fetcher, status_lines, steam_db, rate_db, run, idx, origins, maps, counts,
                   cover_url, attempt, status, summary>>

\* notion.pages.create(parent = main data source) returns; the result is
\* dropped and appid_map_main_page_id is left as it was
MainCreate ==
    /\ pc = "main"
    /\ ~InMap(key, appid_map_main_page_id)
    /\ InMap(key, appid_map_rate_page_id)
    /\ InMap(key, appid_map_steam_page_id)
    /\ LET new_main_page == Len(main_db) + 1 IN
         /\ main_db' = Append(main_db, MainPage(new_main_page, key,
                                  appid_map_rate_page_id[key], appid_map_steam_page_id[key]))
         /\ call' = [op |-> "main_create", res |-> "ok", page |-> new_main_page]
    /\ pc' = "status"
    /\ delay' = 0
    /\ UNCHANGED <<store, fetcher, status_lines, steam_db, rate_db, run, idx, origins, maps, counts,
                   cover_url, attempt, status, summary>>

\* the same call raises e: made once, the exception reaches the except clause
MainCreateRaises(e) ==
    /\ pc = "main"
    /\ ~InMap(key, appid_map_main_page_id)
    /\ InMap(key, appid_map_rate_page_id)
    /\ InMap(key, appid_map_steam_page_id)
    /\ call' = [op |-> "main_create", res |-> e, page |-> NoPage]
    /\ ItemExcept(e)
    /\ delay' = 0
    /\ UNCHANGED <<store, fetcher, status_lines, dbs, run, idx, origins, maps, success_count, fail_count,
                   cover_url, attempt, summary>>

(* -------------------------------------------------- status line and summary *)
\* print(status line); time.sleep(NOTION_DELAY)
StatusLine ==
    /\ pc = "status"
    /\ status_lines' = status_lines + 1
    /\ delay' = NOTION_DELAY
    /\ pc' = "for"
    /\ UNCHANGED <<store, fetcher, dbs, run, idx, origins, maps, counts, cover_url, attempt,
                   status, call, summary>>

\* the final statistics line
Summary ==
    /\ pc = "summary"
    /\ summary' = [success |-> success_count, fail |-> fail_count,
                   skipped |-> skipped_count, total |-> Len(games), printed |-> TRUE]
    /\ pc' = "done"
    /\ delay' = 0
    /\ UNCHANGED <<store, fetcher, status_lines, dbs, run, idx, origins, maps, counts, cover_url, attempt,
                   status, call>>

\* the program is started again on the same library and the same selection:
\* import_to_notion begins with its counters at zero
Rerun ==
    /\ pc = "done"
    /\ run = "first"
    /\ run' = "second"
    /\ pc' = "query_steam"
    /\ idx' = 0
    /\ success_count' = 0
    /\ fail_count' = 0
    /\ skipped_count' = 0
    /\ delay' = 0
    /\ UNCHANGED <<store, fetcher, status_lines, dbs, origins, maps, cover_url, attempt, status, call, summary>>

Raises == {"conn", "exc"}

\* one step of import_to_notion
Import ==
    \/ QuerySteam
    \/ QueryRate
    \/ QueryMain
    \/ QueryRaises
    \/ ForLoop
    \/ DetailsReturned
    \/ DetailsExhausted
    \/ RatePresent
    \/ RateCreate
    \/ \E e \in Raises : RateCreateRaises(e)
    \/ CoverCheck
    \/ SteamUpdate
    \/ SteamCreate
    \/ SteamConnectionError
    \/ SteamException
    \/ MainPresent
    \/ MainKeyError
    \/ MainCreate
    \/ \E e \in Raises : MainCreateRaises(e)
    \/ StatusLine
    \/ Summary

Next == Import \/ Rerun

Spec == Init /\ [][Next]_vars

\* One call of import_to_notion.  It is one sequential thread: a call that has
\* started goes on to its next statement.
FairSpec == Init /\ [][Import]_vars /\ WF_vars(Import)

(* --------------------------- create_appid_map_for_pages on its own inputs *)
\* any scanned page array of MaxPages pages or fewer, pages in scan order
InitMap ==
    /\ origin_data \in {PagesOf(keys) : keys \in SeqsUpTo(KeyTexts, MaxPages)}
    /\ pc = "map_call"
    /\ games = <<>>
    /\ has_cover = {}
    /\ steam_db = <<>>
    /\ rate_db = <<>>
    /\ main_db = <<>>
    /\ run = "first"
    /\ idx = 0
    /\ origin_rate_data = <<>>
    /\ origin_main_data = <<>>
    /\ appid_map_steam_page_id = EmptyMap
    /\ appid_map_rate_page_id = EmptyMap
    /\ appid_map_main_page_id = EmptyMap
    /\ success_count = 0
    /\ fail_count = 0
    /\ skipped_count = 0
    /\ cover_url = FALSE
    /\ attempt = 0
    /\ status = "unset"
    /\ call = NoCall
    /\ summary = NoSummary
    /\ status_lines = 0
    /\ delay = 0
    /\ FetcherIdle

\* appid_map_steam_page_id = create_appid_map_for_pages(origin_data)
CallCreateAppidMap ==
    /\ pc = "map_call"
    /\ appid_map_steam_page_id' = create_appid_map_for_pages(origin_data)
    /\ pc' = "map_done"
    /\ delay' = 0
    /\ UNCHANGED <<store, fetcher, status_lines, dbs, run, idx, origins, appid_map_rate_page_id,
                   appid_map_main_page_id, counts, cover_url, attempt, status,
                   call, summary>>

NextMap == CallCreateAppidMap

SpecMap == InitMap /\ [][NextMap]_vars

(* ------------- the Steam fetchers and calculate_achievement_rate on their own *)
\* the achievement lists the Steam API answers with: entries {achieved: 0 or 1}
AchLists ==
    {[i \in 1..Len(flags) |-> [achieved |-> flags[i]]] : flags \in SeqsUpTo({0, 1}, MaxAch)}

\* a counter that takes every entry for unlocked
IsUnlocked_Always(ach) == TRUE

\* ach.get("achieved", 0) == 1
IsUnlocked(ach) == ach.achieved = 1

\* sum(1 for ach in achievements if ach.get("achieved", 0) == 1)
RECURSIVE CountUnlocked(_, _)
CountUnlocked(achievements, i) ==
    IF i > Len(achievements) THEN 0
    ELSE (IF IsUnlocked(achievements[i]) THEN 1 ELSE 0) + CountUnlocked(achievements, i + 1)

\* calculate_achievement_rate: "if not achievements" answers the zero record;
\* otherwise rate is the quotient unlocked / total, kept as numerator and
\* denominator ("percentage" is a formatting of rate and is left out)
calculate_achievement_rate(achievements) ==
    IF Len(achievements) = 0
    THEN [total |-> 0, unlocked |-> 0, rate |-> [num |-> 0, den |-> 1], computed |-> TRUE]
    ELSE LET total_achievements == Len(achievements)
             unlocked_achievements == CountUnlocked(achievements, 1)
         IN [total |-> total_achievements,
             unlocked |-> unlocked_achievements,
             rate |-> IF total_achievements > 0
                      THEN [num |-> unlocked_achievements, den |-> total_achievements]
                      ELSE [num |-> 0, den |-> 1],
             computed |-> TRUE]

\* get_game_details_with_cover(appid) or get_game_achievements(appid) is
\* entered: attempt = 1, and the Steam API holds some answer for the appid
InitSteam ==
    /\ fetch_fn \in {"details", "achievements"}
    /\ steam_reply \in [header_image : BOOLEAN, achievements : AchLists]
    /\ fetch_fn = "details" => steam_reply.achievements = <<>>
    /\ fetch_fn = "achievements" => steam_reply.header_image = FALSE
    /\ requests = 0
    /\ http_ok = FALSE
    /\ fetch_result = NoResult
    /\ achievement_rate = NoRate
    /\ pc = "fetch"
    /\ attempt = 1
    /\ games = <<>>
    /\ has_cover = {}
    /\ steam_db = <<>>
    /\ rate_db = <<>>
    /\ main_db = <<>>
    /\ run = "first"
    /\ idx = 0
    /\ origin_data = <<>>
    /\ origin_rate_data = <<>>
    /\ origin_main_data = <<>>
    /\ appid_map_steam_page_id = EmptyMap
    /\ appid_map_rate_page_id = EmptyMap
    /\ appid_map_main_page_id = EmptyMap
    /\ success_count = 0
    /\ fail_count = 0
    /\ skipped_count = 0
    /\ cover_url = FALSE
    /\ status = "unset"
    /\ call = NoCall
    /\ summary = NoSummary
    /\ status_lines = 0
    /\ delay = 0

notion == <<store, dbs, run, idx, origins, maps, counts, cover_url, status, call,
            summary, status_lines>>

\* a fetcher whose range stops one attempt short
FetchRaises_OneShort ==
    /\ pc = "fetch"
    /\ requests' = requests + 1
    /\ delay' = REQUEST_DELAY * attempt
    /\ IF attempt = STEAM_RETRY_TIMES - 1
       THEN /\ fetch_result' = [NoResult EXCEPT !.returned = TRUE]
            /\ attempt' = attempt
            /\ pc' = "fetched"
       ELSE /\ attempt' = attempt + 1
            /\ UNCHANGED <<fetch_result, pc>>
    /\ UNCHANGED <<notion, fetch_fn, steam_reply, http_ok, achievement_rate>>

\* the attempt raises (requests.get or the reading of its answer): the except
\* clause prints, sleeps REQUEST_DELAY * attempt, and the loop goes on; after
\* the last attempt the function returns {}
FetchRaises ==
    /\ pc = "fetch"
    /\ requests' = requests + 1
    /\ delay' = REQUEST_DELAY * attempt
    /\ IF attempt = STEAM_RETRY_TIMES
       THEN /\ fetch_result' = [NoResult EXCEPT !.returned = TRUE]
            /\ attempt' = attempt
            /\ pc' = "fetched"
       ELSE /\ attempt' = attempt + 1
            /\ UNCHANGED <<fetch_result, pc>>
    /\ UNCHANGED <<notion, fetch_fn, steam_reply, http_ok, achievement_rate>>

\* the attempt goes through: the function returns the detail dict (cover_url
\* from header_image) or the achievement list
FetchReturns ==
    /\ pc = "fetch"
    /\ requests' = requests + 1
    /\ http_ok' = TRUE
    /\ fetch_result' =
          IF fetch_fn = "details"
          THEN [returned |-> TRUE, empty |-> FALSE,
                cover_url |-> steam_reply.header_image, achievements |-> <<>>]
          ELSE [returned |-> TRUE, empty |-> (Len(steam_reply.achievements) = 0),
                cover_url |-> FALSE, achievements |-> steam_reply.achievements]
    /\ delay' = 0
    /\ pc' = "fetched"
    /\ UNCHANGED <<notion, fetch_fn, steam_reply, attempt, achievement_rate>>

\* achievement_rate = calculate_achievement_rate(achievements)
CalculateRate ==
    /\ pc = "fetched"
    /\ fetch_fn = "achievements"
    /\ achievement_rate' = calculate_achievement_rate(fetch_result.achievements)
    /\ delay' = 0
    /\ pc' = "rated"
    /\ UNCHANGED <<notion, fetch_fn, steam_reply, requests, http_ok, fetch_result,
                   attempt>>

NextSteam == FetchRaises \/ FetchReturns \/ CalculateRate

SpecSteam == InitSteam /\ [][NextSteam]_vars

(* ================================================================ claims *)
\* import_to_notion is between the map loading and the end of its summary
InLoop == pc \in {"for", "details", "rate", "cover_check", "steam", "main",
                  "status", "summary"}

\* the items of the list whose store detail has a cover image
NumCover == Cardinality({i \in 1..Len(games) : games[i] \in has_cover})

\* at most one page of the data source carries any one appid text
Unique(db) ==
    \A i, j \in 1..Len(db) : (i # j /\ db[i].appid # "") => db[i].appid # db[j].appid

\* C1: while an item whose fetched detail has no cover image is processed, no
\* page is created or updated in any data source and none of the three
\* identity maps changes.
C1_IncompleteNeverMutates ==
    [][(pc \in {"rate", "cover_check"} /\ ~cover_url) => UNCHANGED <<dbs, maps>>]_vars

\* C2: the step that drops an item without a cover image adds one to
\* skipped_count, so the summary counts at least one skip for each such item.
C2_IncompleteCountedSkipped ==
    /\ [][(pc = "cover_check" /\ ~cover_url) => skipped_count' = skipped_count + 1]_vars
    /\ [](pc = "done" => summary.skipped >= Len(games) - NumCover)

\* C3: an item makes one transition to Skipped, Succeeded or Failed, so the
\* three counters together never exceed the number of items taken so far.
C3_SingleTransition ==
    success_count + fail_count + skipped_count <= idx

FirstRunClean ==
    /\ summary.printed
    /\ summary.success = NumCover
    /\ summary.fail = 0
    /\ summary.skipped = 0

C5_UniquenessPreserved ==
    ((InLoop \/ pc = "done") /\ Unique(origin_data) /\ Unique(origin_rate_data)
        /\ Unique(origin_main_data))
    => (Unique(steam_db) /\ Unique(rate_db) /\ Unique(main_db))

\* the id of the first page of the array that carries the appid text k
FirstSeen(pages_array, k) ==
    LET first == CHOOSE i \in 1..Len(pages_array) :
                    /\ pages_array[i].appid = k
                    /\ \A j \in 1..(i - 1) : pages_array[j].appid # k
    IN pages_array[first].id

\* C6: when two or more scanned pages carry the same appid text, the map
\* built from the scan holds the id of the first of them.
C6_FirstSeenWins ==
    pc = "map_done" =>
        \A k \in AppKeys :
            Cardinality({i \in 1..Len(origin_data) : origin_data[i].appid = k}) >= 2
            => appid_map_steam_page_id[k] = FirstSeen(origin_data, k)

\* C7: a connectivity failure of a create or update below the attempt cap (the
\* stub create and the linking create fail at their first attempt) is retried:
\* the item stays at the same call and its outcome is not yet decided.
C7_EveryMutationRetried ==
    [][((SteamConnectionError /\ attempt < NOTION_RETRY_TIMES)
          \/ RateCreateRaises("conn") \/ MainCreateRaises("conn"))
       => (pc' = pc /\ status' = status /\ UNCHANGED counts)]_vars

\* C8: a primary create or update that raises another exception ends the retry
\* loop, and from then on the item's status stays Failed and no counter moves
\* for it again.
C8_RejectionIsFinalFailed ==
    /\ [][SteamException => pc' # "steam"]_vars
    /\ [][(status = "fail(exc)" /\ pc \in {"main", "status"})
            => (status' = "fail(exc)" /\ UNCHANGED counts)]_vars

\* C9: an exception raised outside the primary retry loop (by the stub create,
\* by the linking create or by building the linking record) is caught at the
\* item: skipped_count grows by one, the status reads skipped, the run goes on
\* to the item's status line and no other counter moves.
C9_OutsideExceptionIsSkipped ==
    [][((\E e \in Raises : RateCreateRaises(e)) \/ MainKeyError
          \/ (\E e \in Raises : MainCreateRaises(e)))
       => /\ skipped_count' = skipped_count + 1
          /\ status' \in {"skip(conn)", "skip(exc)", "skip(KeyError)"}
          /\ pc' = "status"
          /\ UNCHANGED <<success_count, fail_count, idx, run>>]_vars

\* the stub create of the second item has raised and the item is counted
C9_Witness ==
    /\ pc = "status"
    /\ idx = 2
    /\ call.op = "rate_create"
    /\ call.res = "exc"
    /\ status = "skip(exc)"
    /\ skipped_count >= 1

\* C10: once the maps are built the loop takes the items one by one, the
\* summary is reached only after the last item, and every run that has its
\* maps reaches the summary.
C10_RunReachesSummary ==
    /\ [][(idx' # idx) => (idx' = idx + 1 \/ pc = "done")]_vars
    /\ [][(pc' = "summary" /\ pc # "summary") => idx = Len(games)]_vars
    /\ (pc = "for") ~> (pc = "done")

\* a summary printed after every item of a two-item list has failed
C10_Witness ==
    /\ pc = "done"
    /\ summary.printed
    /\ summary.total = 2
    /\ summary.fail = 2
    /\ summary.skipped >= 1

\* C11: an item that is left (for the next item or for the summary) has had
\* its status line printed exactly once.
C11_OneStatusLinePerItem ==
    /\ [][(pc = "for" /\ idx >= 1 /\ pc' # "for") => status_lines = 1]_vars
    /\ [](status_lines <= 1)

QueryPcs == {"query_steam", "query_rate", "query_main"}

\* C12: a scan that raises ends the run at once: the exception leaves
\* import_to_notion, nothing follows it, and up to there no page was created
\* or updated, no item was taken and no counter moved.
C12_ScanFailureIsFatal ==
    /\ [][QueryRaises => pc' = "raised"]_vars
    /\ [][(pc = "raised") => FALSE]_vars
    /\ [][(pc \in QueryPcs) => UNCHANGED <<dbs, counts, idx, status_lines>>]_vars
    /\ [][(pc \in QueryPcs /\ pc' = "for")
            => (pc = "query_main"
                /\ appid_map_main_page_id' = create_appid_map_for_pages(main_db))]_vars
    /\ [](pc \in QueryPcs \cup {"raised"} =>
            (idx = 0 /\ success_count + fail_count + skipped_count = 0))

\* the second run's scan of the rate data source has raised after the scan of
\* the steam data source returned pages
C12_Witness ==
    /\ pc = "raised"
    /\ run = "second"
    /\ origin_data = steam_db
    /\ Len(steam_db) >= 1
    /\ origin_rate_data # rate_db

\* C13: a fetcher that saw every attempt raise has made exactly
\* STEAM_RETRY_TIMES requests and has returned an empty result; no fetcher
\* makes more requests than that, and none lets the exception out.
C13_FetchRetryCeiling ==
    /\ (pc \in {"fetched", "rated"} /\ ~http_ok) =>
          (requests = STEAM_RETRY_TIMES /\ fetch_result.returned /\ fetch_result.empty)
    /\ requests <= STEAM_RETRY_TIMES
    /\ pc # "raised"

\* get_game_achievements has returned after every attempt raised
C13_Witness ==
    /\ pc = "fetched"
    /\ fetch_fn = "achievements"
    /\ ~http_ok
    /\ requests = STEAM_RETRY_TIMES
    /\ fetch_result.empty

\* C18: the statistics computed from an achievement list have total = the
\* length of the list, unlocked = the number of entries whose achieved is 1,
\* 0 <= unlocked <= total; the empty list gives total 0, unlocked 0, rate 0
\* with no division by zero, and a non-empty list gives rate = unlocked / total.
C18_AchievementRate ==
    pc = "rated" =>
        LET achievements == fetch_result.achievements
            unlocked == Cardinality({i \in 1..Len(achievements) : achievements[i].achieved = 1})
        IN /\ achievement_rate.computed
           /\ achievement_rate.total = Len(achievements)
           /\ achievement_rate.unlocked = unlocked
           /\ 0 <= achievement_rate.unlocked
           /\ achievement_rate.unlocked <= achievement_rate.total
           /\ achievement_rate.rate.den # 0
           /\ Len(achievements) = 0 =>
                 /\ achievement_rate.total = 0
                 /\ achievement_rate.unlocked = 0
                 /\ achievement_rate.rate.num = 0
           /\ Len(achievements) > 0 =>
                 /\ achievement_rate.rate.num = achievement_rate.unlocked
                 /\ achievement_rate.rate.den = achievement_rate.total

\* a list of full length with all entries but one unlocked has been rated
C18_Witness ==
    /\ pc = "rated"
    /\ achievement_rate.total = MaxAch
    /\ achievement_rate.unlocked = MaxAch - 1

\* the pages of a data source that carry the appid text
PagesWith(db, k) == {i \in 1..Len(db) : db[i].appid = k}

\* the item in hand has a cover image and its appid was in none of the three
\* data sources when the item began: the scans of this run found no page of
\* it, and no earlier item of the run has the same appid
FreshItem ==
    /\ pc \in {"rate", "cover_check", "steam", "main", "status"}
    /\ cover_url
    /\ ~InMap(key, create_appid_map_for_pages(origin_data))
    /\ ~InMap(key, create_appid_map_for_pages(origin_rate_data))
    /\ ~InMap(key, create_appid_map_for_pages(origin_main_data))
    /\ \A j \in 1..(idx - 1) : games[j] # appid

\* each data source holds exactly one page of the appid, its newest, and the
\* linking page refers to the other two
OneNewPageEach ==
    /\ PagesWith(steam_db, key) = {Len(steam_db)}
    /\ PagesWith(rate_db, key) = {Len(rate_db)}
    /\ PagesWith(main_db, key) = {Len(main_db)}
    /\ main_db[Len(main_db)] = [id |-> Len(main_db), appid |-> key,
                                 rate_rel |-> Len(rate_db), steam_rel |-> Len(steam_db)]

\* C14: an item with a cover image whose appid was in none of the three data
\* sources, and whose last API call did not raise, reaches its status line as
\* a success with one new primary page, one new stub and one new linking page
\* that refers to both; while such an item is processed a data source changes
\* only by gaining one page of that appid, and no page is updated.
C14_FreshItemCreatesOneOfEach ==
    /\ []((FreshItem /\ pc = "status" /\ call.res \notin Raises) =>
            (status = "success" /\ call.op = "main_create" /\ OneNewPageEach))
    /\ [](FreshItem => call.op # "steam_update")
    /\ [][FreshItem =>
            /\ steam_db' = steam_db
                 \/ (steam_db' = Append(steam_db, Page(Len(steam_db) + 1, key))
                     /\ PagesWith(steam_db, key) = {})
            /\ rate_db' = rate_db
                 \/ (rate_db' = Append(rate_db, Page(Len(rate_db) + 1, key))
                     /\ PagesWith(rate_db, key) = {})
            /\ main_db' = main_db
                 \/ (Len(main_db') = Len(main_db) + 1
                     /\ main_db = SubSeq(main_db', 1, Len(main_db))
                     /\ PagesWith(main_db, key) = {})]_vars

\* a later item of the list, new to all three data sources, has succeeded
\* with data sources of different sizes
C14_Witness ==
    /\ FreshItem
    /\ pc = "status"
    /\ idx >= 2
    /\ status = "success"
    /\ call = [op |-> "main_create", res |-> "ok", page |-> Len(main_db)]
    /\ Len(rate_db) # Len(steam_db)

\* C15: in each of the three data sources, the step that creates a page for
\* the item's appid also stores the new page's id under that appid in the
\* data source's identity map.
C15_CreatedAppidIsMapped ==
    /\ [][Len(steam_db') > Len(steam_db) =>
            appid_map_steam_page_id'[key] = Len(steam_db')]_vars
    /\ [][Len(rate_db') > Len(rate_db) =>
            appid_map_rate_page_id'[key] = Len(rate_db')]_vars
    /\ [][Len(main_db') > Len(main_db) =>
            appid_map_main_page_id'[key] = Len(main_db')]_vars

\* C16: a step that adds a linking page finds the item's appid absent from
\* appid_map_main_page_id; the new page's two relations are the ids mapped for
\* that appid in the primary and the secondary map, and each of them is the id
\* of a page of that appid in its data source.
C16_LinkingRecordRefersToBoth ==
    [][Len(main_db') > Len(main_db) =>
        LET linking == main_db'[Len(main_db')] IN
          /\ ~InMap(key, appid_map_main_page_id)
          /\ Len(main_db') = Len(main_db) + 1
          /\ linking.appid = key
          /\ linking.steam_rel = appid_map_steam_page_id[key]
          /\ linking.rate_rel = appid_map_rate_page_id[key]
          /\ linking.steam_rel \in PagesWith(steam_db', key)
          /\ linking.rate_rel \in PagesWith(rate_db', key)]_vars

\* a linking page has been created for an appid whose primary page was found
\* by the scan and updated
C16_Witness ==
    /\ pc = "status"
    /\ call = [op |-> "main_create", res |-> "ok", page |-> Len(main_db)]
    /\ InMap(key, create_appid_map_for_pages(origin_data))
    /\ main_db[Len(main_db)].steam_rel = create_appid_map_for_pages(origin_data)[key]

\* an item is in hand, between its fetch and its status line
InItem == pc \in {"details", "rate", "cover_check", "steam", "main", "status"}

\* C17: the secondary data source changes only by gaining one stub page for
\* an item whose appid is absent from appid_map_rate_page_id; while an item
\* whose appid is in that map is processed, the secondary data source is not
\* written, no stub create is called and the map entry stays as it is.
C17_SecondaryOnlyStubCreated ==
    /\ [][rate_db' # rate_db =>
            /\ pc = "rate"
            /\ ~InMap(key, appid_map_rate_page_id)
            /\ rate_db' = Append(rate_db, Page(Len(rate_db) + 1, key))
            /\ call' = [op |-> "rate_create", res |-> "ok", page |-> Len(rate_db')]]_vars
    /\ [][(InItem /\ InMap(key, appid_map_rate_page_id)) =>
            /\ rate_db' = rate_db
            /\ appid_map_rate_page_id'[key] = appid_map_rate_page_id[key]
            /\ call' # call => call'.op # "rate_create"]_vars

\* an item whose appid the scan found in the secondary data source has been
\* processed to a success
C17_Witness ==
    /\ pc = "status"
    /\ status = "success"
    /\ InMap(key, create_appid_map_for_pages(origin_rate_data))
    /\ rate_db = origin_rate_data

\* C19: a connectivity error of the primary create or update below the cap
\* sleeps NOTION_DELAY * attempt and goes to the next attempt without moving a
\* counter; at attempt NOTION_RETRY_TIMES it ends the loop with fail_count
\* grown by one and status Failed, and from then on the item's status stays
\* Failed and no counter moves for it; the loop never runs an attempt beyond
\* NOTION_RETRY_TIMES and none after an attempt has returned.
C19_ConnectivityRetriesThenFailed ==
    /\ [](pc = "steam" => (attempt \in 1..NOTION_RETRY_TIMES /\ status = "unset"))
    /\ [][(SteamUpdate \/ SteamCreate) => pc' # "steam"]_vars
    /\ [][(SteamConnectionError /\ attempt < NOTION_RETRY_TIMES) =>
            /\ attempt' = attempt + 1
            /\ delay' = NOTION_DELAY * attempt
            /\ pc' = "steam"
            /\ UNCHANGED <<counts, status>>]_vars
    /\ [][(SteamConnectionError /\ attempt = NOTION_RETRY_TIMES) =>
            /\ fail_count' = fail_count + 1
            /\ UNCHANGED <<success_count, skipped_count>>
            /\ status' = "fail(conn)"
            /\ pc' # "steam"]_vars
    /\ [][(status = "fail(conn)" /\ pc \in {"main", "status"})
            => (status' = "fail(conn)" /\ UNCHANGED counts)]_vars

\* C20: a primary attempt that raises changes none of the three identity
\* maps, an update changes none either, and while an item is processed an
\* entry of appid_map_steam_page_id changes only for the item's appid, from
\* absent to the id of the page a returned create has just added.
C20_FailedAttemptKeepsMaps ==
    /\ [][(pc = "steam" /\ call'.res \in Raises) => UNCHANGED maps]_vars
    /\ [][(pc = "steam" /\ call'.op = "steam_update") => UNCHANGED maps]_vars
    /\ [][InItem =>
            \A k \in AppKeys :
                appid_map_steam_page_id'[k] # appid_map_steam_page_id[k] =>
                    /\ k = key
                    /\ pc = "steam"
                    /\ ~InMap(k, appid_map_steam_page_id)
                    /\ call' = [op |-> "steam_create", res |-> "ok",
                                page |-> Len(steam_db')]
                    /\ steam_db' = Append(steam_db, Page(Len(steam_db) + 1, k))
                    /\ appid_map_steam_page_id'[k] = Len(steam_db')]_vars

\* a primary create has raised and the loop has ended with the appid still
\* absent from the primary map, the stub's id still mapped
C20_Witness ==
    /\ pc = "main"
    /\ call.op = "steam_create"
    /\ call.res \in Raises
    /\ ~InMap(key, appid_map_steam_page_id)
    /\ InMap(key, appid_map_rate_page_id)

====
